---- MODULE Spec2Model ----
(***************************************************************************)
(* Model of brewtils/request_handling.py: the RequestProcessor (message    *)
(* dispatch on a thread pool) and the HTTPRequestUpdater (request updates  *)
(* with retry headers, the brew_view_down gate and the connection poll     *)
(* thread).                                                                *)
(*                                                                         *)
(* A slot t \in Tasks is one message delivery: the (request, headers) pair *)
(* the consumer hands to on_message_received, the pool task it becomes and *)
(* the outcome of that task, which the consumer acts on (republish sends   *)
(* the same request and headers through on_message_received again). The   *)
(* pool has a worker for every slot, so a submitted task starts at once.   *)
(***************************************************************************)
EXTENDS Integers, Sequences, FiniteSets, TLC

\* ------------------------------------------------------------------ bounds

\* Number of message deliveries that can be in flight at once.
NumTasks == 2

\* update_request calls made with one envelope before the model stops
\* republishing it.
MaxRetryCalls == 5

Tasks == 1..NumTasks

\* ------------------------------------------------ configuration and data

\* HTTPRequestUpdater.__init__ keyword defaults.
max_timeout == 30
starting_timeout == 5

\* A header key that is not in the headers dictionary.
Absent == -1

\* headers.get(key, default)
Get(v, default) == IF v = Absent THEN default ELSE v

\* Values of the max_attempts keyword when deliveries run concurrently.
PoolMaxAttempts == {2}

\* Envelopes of a first delivery when deliveries run concurrently: no retry
\* information at all, and a counter one below the limit.
PoolHeaders ==
    { [retry_attempt |-> Absent, time_to_wait |-> Absent],
      [retry_attempt |-> 1, time_to_wait |-> 5] }

\* Values of the max_attempts keyword when one envelope is followed: the
\* default (unlimited), zero (unlimited too) and positive limits.
RetryMaxAttempts == {-1, 0, 1, 3}

\* Envelopes of a first delivery when one envelope is followed: no retry
\* information at all, a counter at zero with no wait and with the starting
\* wait, counters below, at and past a limit, a wait above max_timeout.
RetryHeaders ==
    { [retry_attempt |-> Absent, time_to_wait |-> Absent],
      [retry_attempt |-> 0, time_to_wait |-> 0],
      [retry_attempt |-> 0, time_to_wait |-> 5],
      [retry_attempt |-> 1, time_to_wait |-> 40],
      [retry_attempt |-> 3, time_to_wait |-> Absent],
      [retry_attempt |-> 4, time_to_wait |-> 30] }

\* Request.COMPLETED_STATUSES
COMPLETED_STATUSES == {"CANCELED", "SUCCESS", "ERROR"}

\* Requests of a first delivery when deliveries run concurrently: new work
\* and a status echo.
PoolRequests ==
    [is_ephemeral : {FALSE}, status : {"CREATED", "SUCCESS"}, error_class : {"none"}]

\* What the invoked command does when deliveries run concurrently.
PoolOutcomes == {"returns", "raises"}

\* Requests of a first delivery when one envelope is followed: status
\* echoes, ephemeral or not.
RetryRequests ==
    [is_ephemeral : BOOLEAN, status : {"SUCCESS"}, error_class : {"none"}]

\* Values of the max_attempts keyword, envelopes, requests and command
\* outcomes when one delivery is followed through process_message: no limit
\* and a limit; an envelope without retry information and one at the limit;
\* new work, work in progress and status echoes, ephemeral or not; a
\* command that returns, one that raises, and a name the target lacks.
DispatchMaxAttempts == {-1, 2}

DispatchHeaders ==
    { [retry_attempt |-> Absent, time_to_wait |-> Absent],
      [retry_attempt |-> 2, time_to_wait |-> 5] }

DispatchRequests ==
    [is_ephemeral : BOOLEAN,
     status : {"CREATED", "IN_PROGRESS", "SUCCESS", "ERROR", "CANCELED"},
     error_class : {"none"}]

DispatchOutcomes == {"returns", "raises", "not_found"}

\* A slot that holds no request, and one that holds no headers.
NoRequest == [is_ephemeral |-> FALSE, status |-> "CREATED", error_class |-> "none"]
NoHeaders == [retry_attempt |-> Absent, time_to_wait |-> Absent]

\* The update the EasyClient is asked to send on the final attempt.
GiveUpUpdate == [status |-> "ERROR", error_class |-> "BGGivesUpError", give_up |-> TRUE]

\* The update the EasyClient is asked to send otherwise.
RealUpdate(r) == [status |-> r.status, error_class |-> r.error_class, give_up |-> FALSE]

\* Entries of a pool task's log: the task was submitted for a request in
\* this status, update_request was called with the request in this status,
\* the call returned ("ok") or raised, the command was invoked with this
\* outcome.
Submitted(status) == [ev |-> "submitted", arg |-> status]
Report(status) == [ev |-> "report", arg |-> status]
Returned(how) == [ev |-> "returned", arg |-> how]
Handler(outcome) == [ev |-> "handler", arg |-> outcome]

\* Failures of a remote call: requests' ConnectionError / RestConnectionError,
\* RestClientError, and any other exception.
Failures == {"conn", "client", "other"}

VARIABLES
    max_attempts,     \* HTTPRequestUpdater.max_attempts
    brew_view_down,   \* HTTPRequestUpdater.brew_view_down
    lock,             \* the tasks holding brew_view_error_condition's lock (the poll
                      \* thread holds it exactly while it probes)
    shutdown_event,   \* the threading.Event shared by the plugin
    pollPc,           \* position of the connection poll thread
    procPc,           \* position of RequestProcessor.shutdown
    pc,               \* position of each slot's pool task
    kind,             \* what was submitted for the slot: "report" or "process"
    phase,            \* which update_request of process_message: 1 or 2
    request,          \* the slot's Request
    headers,          \* the slot's headers dictionary
    sent,             \* remote update calls made by the current update_request call
    exc,              \* exception the current update_request call caught
    result,           \* how the slot's last delivery ended
    gate,             \* what the current update_request call met at the gate: "up",
                      \* "down", "down_shutdown" (down, the event set), and once
                      \* notified while waiting, "probe" or "shutdown"
    nCalls,           \* update_request calls finished with the slot's envelope
    nGiveUp,          \* give-up updates attempted with the slot's envelope
    failKinds,        \* what those calls met: "none", "conn", "other" or "mixed"
    start0,           \* the slot's envelope began with retry counter 0
    log,              \* the slot's pool task so far, in order: its submission (the
                      \* status the request had), the update_request calls it made
                      \* and how each ended, and the command it invoked
    current_request,  \* request_context.current_request, in the thread that runs the
                      \* slot's task, is the slot's Request
    notifier          \* what called notify_all() in the last step: "probe" (the poll
                      \* thread), "shutdown" (the updater's shutdown()), or "none"

vars == << max_attempts, brew_view_down, lock, shutdown_event, pollPc, procPc,
           pc, kind, phase, request, headers, sent, exc, result, gate, nCalls,
           nGiveUp, failKinds, start0, log, current_request, notifier >>

TypeOK ==
    /\ max_attempts \in PoolMaxAttempts \cup RetryMaxAttempts \cup DispatchMaxAttempts
    /\ brew_view_down \in BOOLEAN
    /\ lock \in SUBSET Tasks
    /\ shutdown_event \in BOOLEAN
    /\ pollPc \in {"wait", "lock", "probe", "exit"}
    /\ procPc \in {"running", "draining", "updater", "done"}
    /\ pc \in [Tasks -> {"idle", "update", "waiting", "notified", "sleep",
                         "call_real", "call_giveup", "invoke"}]
    /\ kind \in [Tasks -> {"report", "process"}]
    /\ phase \in [Tasks -> {1, 2}]
    /\ result \in [Tasks -> {"none", "ok", "republish", "discard",
                             "parse_error", "rejected", "pool_closed"}]
    /\ current_request \in [Tasks -> BOOLEAN]
    /\ notifier \in {"none", "probe", "shutdown"}

\* The state after RequestProcessor and HTTPRequestUpdater are constructed,
\* the updater with max_attempts drawn from M.
init(M) ==
    /\ max_attempts \in M
    /\ brew_view_down = FALSE
    /\ lock = {}
    /\ shutdown_event = FALSE
    /\ pollPc = "wait"
    /\ procPc = "running"
    /\ pc = [t \in Tasks |-> "idle"]
    /\ kind = [t \in Tasks |-> "report"]
    /\ phase = [t \in Tasks |-> 1]
    /\ request = [t \in Tasks |-> NoRequest]
    /\ headers = [t \in Tasks |-> NoHeaders]
    /\ sent = [t \in Tasks |-> << >>]
    /\ exc = [t \in Tasks |-> "none"]
    /\ result = [t \in Tasks |-> "none"]
    /\ gate = [t \in Tasks |-> "none"]
    /\ nCalls = [t \in Tasks |-> 0]
    /\ nGiveUp = [t \in Tasks |-> 0]
    /\ failKinds = [t \in Tasks |-> "none"]
    /\ start0 = [t \in Tasks |-> FALSE]
    /\ log = [t \in Tasks |-> << >>]
    /\ current_request = [t \in Tasks |-> FALSE]
    /\ notifier = "none"

\* ------------------------------------------------- HTTPRequestUpdater

\* Mutant: the poll thread probes without the condition's lock.
lock_free_among_tasks == lock = {}

\* Nobody holds brew_view_error_condition's lock.
lock_free == lock = {} /\ pollPc # "probe"

Min(a, b) == IF a <= b THEN a ELSE b

\* Mutant: the limit is compared with < instead of <=.
should_be_final_attempt_strict(h) ==
    IF max_attempts <= 0
    THEN FALSE
    ELSE max_attempts < Get(h.retry_attempt, 0)

\* _should_be_final_attempt(headers)
should_be_final_attempt(h) ==
    IF max_attempts <= 0
    THEN FALSE
    ELSE max_attempts <= Get(h.retry_attempt, 0)

\* time_to_sleep of _wait_if_not_first_attempt(headers)
time_to_sleep(h) == Min(Get(h.time_to_wait, starting_timeout), max_timeout)

\* Mutant: the doubled wait is not capped at max_timeout.
update_retry_information_uncapped(h) ==
    [retry_attempt |-> Get(h.retry_attempt, 0) + 1,
     time_to_wait |-> Get(h.time_to_wait, starting_timeout \div 2) * 2]

\* Mutant: a missing retry_attempt counts as 1 instead of 0.
update_retry_information_default_one(h) ==
    [retry_attempt |-> Get(h.retry_attempt, 1) + 1,
     time_to_wait |-> Min(Get(h.time_to_wait, starting_timeout \div 2) * 2, max_timeout)]

\* _update_retry_attempt_information(headers): the rewritten dictionary
update_retry_attempt_information(h) ==
    [retry_attempt |-> Get(h.retry_attempt, 0) + 1,
     time_to_wait |-> Min(Get(h.time_to_wait, starting_timeout \div 2) * 2, max_timeout)]

\* Mutant: the final attempt is tested before the kind of the exception.
handle_failure_final_first(h, e) ==
    IF should_be_final_attempt(h)
    THEN [marks_down |-> e = "conn", headers |-> h, raises |-> "discard"]
    ELSE IF e = "conn"
    THEN [marks_down |-> TRUE, headers |-> h, raises |-> "republish"]
    ELSE IF e = "client"
    THEN [marks_down |-> FALSE, headers |-> h, raises |-> "discard"]
    ELSE [marks_down |-> FALSE, headers |-> update_retry_attempt_information(h),
          raises |-> "republish"]

\* Mutant: a connectivity failure counts as an attempt.
handle_failure_conn_counts(h, e) ==
    IF e = "conn"
    THEN [marks_down |-> TRUE, headers |-> update_retry_attempt_information(h),
          raises |-> "republish"]
    ELSE IF e = "client"
    THEN [marks_down |-> FALSE, headers |-> h, raises |-> "discard"]
    ELSE IF should_be_final_attempt(h)
    THEN [marks_down |-> FALSE, headers |-> h, raises |-> "discard"]
    ELSE [marks_down |-> FALSE, headers |-> update_retry_attempt_information(h),
          raises |-> "republish"]

\* Mutant: no branch for RestClientError.
handle_failure_no_client_branch(h, e) ==
    IF e = "conn"
    THEN [marks_down |-> TRUE, headers |-> h, raises |-> "republish"]
    ELSE IF should_be_final_attempt(h)
    THEN [marks_down |-> FALSE, headers |-> h, raises |-> "discard"]
    ELSE [marks_down |-> FALSE, headers |-> update_retry_attempt_information(h),
          raises |-> "republish"]

\* Mutant: the last branch logs the failure and does not raise.
handle_failure_swallows(h, e) ==
    IF e = "conn"
    THEN [marks_down |-> TRUE, headers |-> h, raises |-> "republish"]
    ELSE IF e = "client"
    THEN [marks_down |-> FALSE, headers |-> h, raises |-> "discard"]
    ELSE IF should_be_final_attempt(h)
    THEN [marks_down |-> FALSE, headers |-> h, raises |-> "discard"]
    ELSE [marks_down |-> FALSE, headers |-> update_retry_attempt_information(h),
          raises |-> "ok"]

\* Mutant: every failure that asks for redelivery marks the server down.
handle_failure_other_marks_down(h, e) ==
    IF e = "conn"
    THEN [marks_down |-> TRUE, headers |-> h, raises |-> "republish"]
    ELSE IF e = "client"
    THEN [marks_down |-> FALSE, headers |-> h, raises |-> "discard"]
    ELSE IF should_be_final_attempt(h)
    THEN [marks_down |-> FALSE, headers |-> h, raises |-> "discard"]
    ELSE [marks_down |-> TRUE, headers |-> update_retry_attempt_information(h),
          raises |-> "republish"]

\* _handle_request_update_failure(request, headers, exc): whether it sets
\* brew_view_down, the headers it leaves and the exception it raises.
handle_request_update_failure(h, e) ==
    IF e = "conn"
    THEN [marks_down |-> TRUE, headers |-> h, raises |-> "republish"]
    ELSE IF e = "client"
    THEN [marks_down |-> FALSE, headers |-> h, raises |-> "discard"]
    ELSE IF should_be_final_attempt(h)
    THEN [marks_down |-> FALSE, headers |-> h, raises |-> "discard"]
    ELSE [marks_down |-> FALSE, headers |-> update_retry_attempt_information(h),
          raises |-> "republish"]

\* Mutant: the test of the shutdown event is not negated.
wait_if_down_event_not_negated == brew_view_down /\ shutdown_event

\* The condition of _wait_for_brew_view_if_down under which the caller waits.
wait_for_brew_view_if_down == brew_view_down /\ ~shutdown_event

\* Mutant: the final attempt sends the real update like any other.
attempt_pc_no_give_up(h) ==
    IF Get(h.retry_attempt, 0) > 0 THEN "sleep" ELSE "call_real"

\* Where update_request goes once it is past the gate, holding the lock:
\* the backoff sleep, the real update or the give-up update.
attempt_pc(h) ==
    IF ~should_be_final_attempt(h)
    THEN IF Get(h.retry_attempt, 0) > 0 THEN "sleep" ELSE "call_real"
    ELSE "call_giveup"

\* The remote update a call that moves to position p has asked for.
sent_at(t, p) ==
    IF p = "call_real" THEN Append(sent[t], RealUpdate(request[t]))
    ELSE IF p = "call_giveup" THEN Append(sent[t], GiveUpUpdate)
    ELSE sent[t]

give_ups_at(t, p) == IF p = "call_giveup" THEN nGiveUp[t] + 1 ELSE nGiveUp[t]

\* What the calls made with an envelope have met so far.
merge_kinds(old, o) ==
    IF o \in {"conn", "other"} /\ old \in {"none", o} THEN o ELSE "mixed"

\* brew_view_error_condition.notify_all(): every waiter is woken and has to
\* take the lock again.
notify_all(by) ==
    /\ pc' = [t \in Tasks |-> IF pc[t] = "waiting" THEN "notified" ELSE pc[t]]
    /\ gate' = [t \in Tasks |-> IF pc[t] = "waiting" THEN by ELSE gate[t]]
    /\ notifier' = by

\* Mutant: process_message goes on to the command when its first
\* update_request raised.
after_update_swallows(k, ph, o) ==
    IF k = "process" /\ ph = 1 THEN "invoke" ELSE "idle"

\* Where a pool task of kind k is once its update_request number ph has
\* returned (o = "ok") or raised: process_message goes on to the command
\* after its first update_request returned; otherwise the task is over.
after_update(k, ph, o) ==
    IF o = "ok" /\ k = "process" /\ ph = 1 THEN "invoke" ELSE "idle"

\* update_request is over for task t: it returned (o = "ok") or the remote
\* call raised o and _handle_request_update_failure re-raised. The lock is
\* released if it was held (releases = TRUE).
update_request_ends(t, o, releases) ==
    LET d == handle_request_update_failure(headers[t], o)
        goes_on == after_update(kind[t], phase[t], o) = "invoke"
    IN  /\ lock' = IF releases THEN lock \ {t} ELSE lock
        /\ exc' = [exc EXCEPT ![t] = IF o = "ok" THEN "none" ELSE o]
        /\ brew_view_down' = IF o # "ok" /\ d.marks_down THEN TRUE ELSE brew_view_down
        /\ headers' = [headers EXCEPT ![t] = IF o = "ok" THEN @ ELSE d.headers]
        /\ pc' = [pc EXCEPT ![t] = IF goes_on THEN "invoke" ELSE "idle"]
        /\ result' = [result EXCEPT ![t] =
                        IF goes_on THEN "none" ELSE IF o = "ok" THEN "ok" ELSE d.raises]
        /\ nCalls' = [nCalls EXCEPT ![t] = @ + 1]
        /\ failKinds' = [failKinds EXCEPT ![t] = merge_kinds(@, o)]
        /\ gate' = [gate EXCEPT ![t] = "none"]
        /\ log' = [log EXCEPT ![t] = Append(@, Returned(IF o = "ok" THEN "ok" ELSE d.raises))]
        /\ notifier' = "none"

\* Mutant: ephemeral requests are updated like the others.
skips_update_never(r) == FALSE

\* update_request, line 293: the request is not updated at all.
skips_update(r) == r.is_ephemeral

\* update_request, lines 293-303: the ephemeral return, taking the lock,
\* the gate, and the choice of the attempt.
UpdateRequest(t) ==
    /\ pc[t] = "update"
    /\ IF skips_update(request[t])
       THEN /\ update_request_ends(t, "ok", FALSE)
            /\ UNCHANGED << sent, nGiveUp >>
       ELSE /\ lock_free
            /\ gate' = [gate EXCEPT ![t] = IF ~brew_view_down THEN "up"
                                          ELSE IF shutdown_event THEN "down_shutdown"
                                          ELSE "down"]
            /\ IF wait_for_brew_view_if_down
               THEN /\ pc' = [pc EXCEPT ![t] = "waiting"]
                    /\ UNCHANGED << lock, sent, nGiveUp >>
               ELSE /\ lock' = lock \cup {t}
                    /\ pc' = [pc EXCEPT ![t] = attempt_pc(headers[t])]
                    /\ sent' = [sent EXCEPT ![t] = sent_at(t, attempt_pc(headers[t]))]
                    /\ nGiveUp' = [nGiveUp EXCEPT ![t] = give_ups_at(t, attempt_pc(headers[t]))]
            /\ notifier' = "none"
            /\ UNCHANGED << exc, brew_view_down, headers, result, nCalls, failKinds, log >>
    /\ UNCHANGED << max_attempts, shutdown_event, pollPc, procPc, kind, phase,
                    request, start0, current_request >>

\* brew_view_error_condition.wait() returns: the woken task has the lock again.
WaitReturns(t) ==
    /\ pc[t] = "notified"
    /\ lock_free
    /\ lock' = lock \cup {t}
    /\ pc' = [pc EXCEPT ![t] = attempt_pc(headers[t])]
    /\ sent' = [sent EXCEPT ![t] = sent_at(t, attempt_pc(headers[t]))]
    /\ nGiveUp' = [nGiveUp EXCEPT ![t] = give_ups_at(t, attempt_pc(headers[t]))]
    /\ UNCHANGED << max_attempts, brew_view_down, shutdown_event, pollPc, procPc,
                    kind, phase, request, headers, exc, result, gate, nCalls,
                    failKinds, start0, log, current_request >>
    /\ notifier' = "none"

\* _wait_if_not_first_attempt: _shutdown_event.wait(time_to_sleep) returns,
\* after the time or because the event is set; the lock is held throughout.
BackoffOver(t) ==
    /\ pc[t] = "sleep"
    /\ pc' = [pc EXCEPT ![t] = "call_real"]
    /\ sent' = [sent EXCEPT ![t] = sent_at(t, "call_real")]
    /\ UNCHANGED << max_attempts, brew_view_down, lock, shutdown_event, pollPc,
                    procPc, kind, phase, request, headers, exc, result, gate,
                    nCalls, nGiveUp, failKinds, start0, log, current_request >>
    /\ notifier' = "none"

\* _ez_client.update_request returns or raises, lines 304-324.
RemoteUpdateDone(t, o) ==
    /\ pc[t] \in {"call_real", "call_giveup"}
    /\ update_request_ends(t, o, TRUE)
    /\ UNCHANGED << max_attempts, shutdown_event, pollPc, procPc, kind, phase,
                    request, sent, nGiveUp, start0, current_request >>

\* Mutant: shutdown() calls notify() and wakes one waiter.
updater_shutdown_notify_one ==
    LET waiters == { t \in Tasks : pc[t] = "waiting" }
        woken == IF waiters = {} THEN {} ELSE { CHOOSE t \in waiters : TRUE }
    IN  /\ lock_free
        /\ pc' = [t \in Tasks |-> IF t \in woken THEN "notified" ELSE pc[t]]
        /\ gate' = [t \in Tasks |-> IF t \in woken THEN "shutdown" ELSE gate[t]]
        /\ notifier' = "shutdown"

\* HTTPRequestUpdater.shutdown(): takes the lock and notifies the waiters.
updater_shutdown ==
    /\ lock_free
    /\ notify_all("shutdown")

\* The plugin calls the updater's shutdown() itself.
UpdaterShutdown ==
    /\ updater_shutdown
    /\ UNCHANGED << max_attempts, brew_view_down, lock, shutdown_event, pollPc,
                    procPc, kind, phase, request, headers, sent, exc, result,
                    nCalls, nGiveUp, failKinds, start0, log, current_request >>

\* _connection_poll, line 406: _shutdown_event.wait(5) times out.
PollWakes ==
    /\ pollPc = "wait"
    /\ ~shutdown_event
    /\ pollPc' = "lock"
    /\ UNCHANGED << max_attempts, brew_view_down, lock, shutdown_event, procPc,
                    pc, kind, phase, request, headers, sent, exc, result, gate,
                    nCalls, nGiveUp, failKinds, start0, log, current_request >>
    /\ notifier' = "none"

\* _connection_poll, line 406: _shutdown_event.wait(5) returns True, the loop ends.
PollExits ==
    /\ pollPc = "wait"
    /\ shutdown_event
    /\ pollPc' = "exit"
    /\ UNCHANGED << max_attempts, brew_view_down, lock, shutdown_event, procPc,
                    pc, kind, phase, request, headers, sent, exc, result, gate,
                    nCalls, nGiveUp, failKinds, start0, log, current_request >>
    /\ notifier' = "none"

\* _connection_poll, lines 408-409: takes the lock and reads the flag; with
\* the flag up the lock is released at once.
PollChecks ==
    /\ pollPc = "lock"
    /\ lock_free
    /\ IF brew_view_down
       THEN pollPc' = "probe"
       ELSE pollPc' = "wait"
    /\ UNCHANGED << max_attempts, brew_view_down, lock, shutdown_event, procPc,
                    pc, kind, phase, request, headers, sent, exc, result, gate,
                    nCalls, nGiveUp, failKinds, start0, log, current_request >>
    /\ notifier' = "none"

\* Mutant: a successful probe clears the flag and notifies nobody.
probe_done_no_notify(ok) ==
    IF ok
    THEN brew_view_down' = FALSE /\ notifier' = "none" /\ UNCHANGED << pc, gate >>
    ELSE notifier' = "none" /\ UNCHANGED << brew_view_down, pc, gate >>

\* _connection_poll, lines 410-420, once get_version() has returned (ok) or
\* raised: what becomes of the flag and of the waiters.
probe_done(ok) ==
    IF ok
    THEN brew_view_down' = FALSE /\ notify_all("probe")
    ELSE notifier' = "none" /\ UNCHANGED << brew_view_down, pc, gate >>

PollProbes(ok) ==
    /\ pollPc = "probe"
    /\ probe_done(ok)
    /\ pollPc' = "wait"
    /\ UNCHANGED << max_attempts, lock, shutdown_event, procPc, kind, phase, request,
                    headers, sent, exc, result, nCalls, nGiveUp, failKinds, start0,
                    log, current_request >>

\* The plugin sets the shutdown event.
SetShutdownEvent ==
    /\ ~shutdown_event
    /\ shutdown_event' = TRUE
    /\ UNCHANGED << max_attempts, brew_view_down, lock, pollPc, procPc,
                    pc, kind, phase, request, headers, sent, exc, result, gate,
                    nCalls, nGiveUp, failKinds, start0, log, current_request >>
    /\ notifier' = "none"

\* ---------------------------------------------------- RequestProcessor

\* Mutant: every request that passes validation goes to process_message.
task_for_always_process(r) == "process"

\* on_message_received, lines 88-93: what is submitted to the pool for r.
task_for(r) ==
    IF r.status \in COMPLETED_STATUSES THEN "report" ELSE "process"

\* on_message_received(message, headers) for slot t. parsed: _parse returns
\* a Request r; valid: no validation function raises; first: the message is
\* new, not a republished one. A submitted process_message task starts with
\* line 109, request.status = "IN_PROGRESS", which no other thread can see
\* and is set here; submit raises once the pool has been shut down.
on_message_received(t, r, h, parsed, valid, first) ==
    LET submits == parsed /\ valid /\ procPc = "running"
        completed == task_for(r) = "report"
    IN  /\ pc[t] = "idle"
        /\ pc' = [pc EXCEPT ![t] = IF submits THEN "update" ELSE "idle"]
        /\ result' = [result EXCEPT ![t] =
                        IF ~parsed THEN "parse_error"
                        ELSE IF ~valid THEN "rejected"
                        ELSE IF ~submits THEN "pool_closed"
                        ELSE "none"]
        /\ kind' = [kind EXCEPT ![t] = IF submits /\ ~completed THEN "process" ELSE "report"]
        /\ phase' = [phase EXCEPT ![t] = 1]
        /\ request' = [request EXCEPT ![t] =
                         IF ~submits THEN NoRequest
                         ELSE IF completed THEN r
                         ELSE [r EXCEPT !.status = "IN_PROGRESS"]]
        /\ headers' = [headers EXCEPT ![t] = IF submits THEN h ELSE NoHeaders]
        /\ sent' = [sent EXCEPT ![t] = << >>]
        /\ exc' = [exc EXCEPT ![t] = "none"]
        /\ gate' = [gate EXCEPT ![t] = "none"]
        /\ nCalls' = [nCalls EXCEPT ![t] = IF submits /\ ~first THEN @ ELSE 0]
        /\ nGiveUp' = [nGiveUp EXCEPT ![t] = IF submits /\ ~first THEN @ ELSE 0]
        /\ failKinds' = [failKinds EXCEPT ![t] = IF submits /\ ~first THEN @ ELSE "none"]
        /\ start0' = [start0 EXCEPT ![t] =
                        IF ~submits THEN FALSE
                        ELSE IF first THEN Get(h.retry_attempt, 0) = 0 ELSE @]
        /\ log' = [log EXCEPT ![t] =
                     IF ~submits THEN << >>
                     ELSE IF completed THEN << Submitted(r.status), Report(r.status) >>
                     ELSE << Submitted(r.status), Report("IN_PROGRESS") >>]
        /\ current_request' = [current_request EXCEPT ![t] = FALSE]
        /\ notifier' = "none"
        /\ UNCHANGED << max_attempts, brew_view_down, lock, shutdown_event,
                        pollPc, procPc >>

\* The consumer delivers a new message, its request drawn from R and its
\* headers from H.
Deliver(t, R, H) ==
    \E r \in R, h \in H, parsed \in BOOLEAN, valid \in BOOLEAN :
        on_message_received(t, r, h, parsed, valid, TRUE)

\* The consumer republishes the request and headers of a
\* RepublishRequestException and they are delivered again (at most until
\* the envelope has been through n update_request calls).
Redeliver(t, n) ==
    /\ result[t] = "republish"
    /\ nCalls[t] < n
    /\ \E valid \in BOOLEAN :
        on_message_received(t, request[t], headers[t], TRUE, valid, FALSE)

\* Mutant: the except branch sets the status and forgets error_class.
command_result_no_error_class(r, outcome) ==
    IF outcome = "returns"
    THEN [r EXCEPT !.status = "SUCCESS"]
    ELSE [r EXCEPT !.status = "ERROR"]

\* process_message, lines 119-134: the request after _invoke_command
\* returned, the command raised an Exception, or _invoke_command raised
\* RequestProcessingError because the target has no such callable.
command_result(r, outcome) ==
    IF outcome = "returns"
    THEN [r EXCEPT !.status = "SUCCESS"]
    ELSE [r EXCEPT !.status = "ERROR",
                   !.error_class = IF outcome = "not_found"
                                   THEN "RequestProcessingError"
                                   ELSE "Exception"]

\* process_message, lines 112-134: the command was invoked and returned,
\* raised, or the target has no such callable; line 136 is the next
\* update_request.
InvokeCommand(t, outcome) ==
    /\ pc[t] = "invoke"
    /\ request' = [request EXCEPT ![t] = command_result(@, outcome)]
    /\ phase' = [phase EXCEPT ![t] = 2]
    /\ pc' = [pc EXCEPT ![t] = "update"]
    /\ sent' = [sent EXCEPT ![t] = << >>]
    /\ exc' = [exc EXCEPT ![t] = "none"]
    /\ gate' = [gate EXCEPT ![t] = "none"]
    /\ current_request' = [current_request EXCEPT ![t] = TRUE]
    /\ log' = [log EXCEPT ![t] = @ \o << Handler(outcome), Report(request'[t].status) >>]
    /\ notifier' = "none"
    /\ UNCHANGED << max_attempts, brew_view_down, lock, shutdown_event, pollPc,
                    procPc, kind, headers, result, nCalls, nGiveUp,
                    failKinds, start0 >>

\* RequestProcessor.shutdown is called: line 141 starts, the pool takes no
\* new work.
ShutdownCalled ==
    /\ procPc = "running"
    /\ procPc' = "draining"
    /\ UNCHANGED << max_attempts, brew_view_down, lock, shutdown_event, pollPc,
                    pc, kind, phase, request, headers, sent, exc, result, gate,
                    nCalls, nGiveUp, failKinds, start0, log, current_request >>
    /\ notifier' = "none"

\* Mutant: the pool is shut down with wait=False.
PoolDrained_no_wait ==
    /\ procPc = "draining"
    /\ procPc' = "updater"
    /\ UNCHANGED << max_attempts, brew_view_down, lock, shutdown_event, pollPc,
                    pc, kind, phase, request, headers, sent, exc, result, gate,
                    nCalls, nGiveUp, failKinds, start0, log, current_request >>
    /\ notifier' = "none"

\* _pool.shutdown(wait=True) returns: every submitted task has finished.
PoolDrained ==
    /\ procPc = "draining"
    /\ \A t \in Tasks : pc[t] = "idle"
    /\ procPc' = "updater"
    /\ UNCHANGED << max_attempts, brew_view_down, lock, shutdown_event, pollPc,
                    pc, kind, phase, request, headers, sent, exc, result, gate,
                    nCalls, nGiveUp, failKinds, start0, log, current_request >>
    /\ notifier' = "none"

\* RequestProcessor.shutdown, line 144: self._updater.shutdown()
ShutdownUpdater ==
    /\ procPc = "updater"
    /\ updater_shutdown
    /\ procPc' = "done"
    /\ UNCHANGED << max_attempts, brew_view_down, lock, shutdown_event, pollPc,
                    kind, phase, request, headers, sent, exc, result,
                    nCalls, nGiveUp, failKinds, start0, log, current_request >>

\* ------------------------------------------------------ specifications

\* The steps of update_request in the pool tasks of the slots T.
update_steps(T) ==
    \/ \E t \in T : UpdateRequest(t)
    \/ \E t \in T : WaitReturns(t)
    \/ \E t \in T : BackoffOver(t)
    \/ \E t \in T, o \in {"ok"} \cup Failures : RemoteUpdateDone(t, o)

\* The steps of the connection poll thread.
poll_steps ==
    \/ PollWakes
    \/ PollChecks
    \/ \E ok \in BOOLEAN : PollProbes(ok)

\* The steps of the plugin shutting down.
shutdown_steps ==
    \/ SetShutdownEvent
    \/ PollExits
    \/ UpdaterShutdown
    \/ ShutdownCalled
    \/ PoolDrained
    \/ ShutdownUpdater

\* Concurrent deliveries of new messages on every slot, up to shutdown.
Init == init(PoolMaxAttempts)
Next ==
    \/ \E t \in Tasks : Deliver(t, PoolRequests, PoolHeaders)
    \/ \E t \in Tasks, outcome \in PoolOutcomes : InvokeCommand(t, outcome)
    \/ update_steps(Tasks)
    \/ poll_steps
    \/ shutdown_steps
Spec == Init /\ [][Next]_vars

\* One envelope followed through its redeliveries on one slot, the plugin
\* running.
RetryInit == init(RetryMaxAttempts)
RetryNext ==
    \/ Deliver(1, RetryRequests, RetryHeaders)
    \/ Redeliver(1, MaxRetryCalls)
    \/ update_steps({1})
    \/ poll_steps
RetrySpec == RetryInit /\ [][RetryNext]_vars

\* One delivery followed through the pool task it becomes, and through its
\* redeliveries, on one slot, the plugin running.
DispatchInit == init(DispatchMaxAttempts)
DispatchNext ==
    \/ Deliver(1, DispatchRequests, DispatchHeaders)
    \/ Redeliver(1, MaxRetryCalls)
    \/ \E outcome \in DispatchOutcomes : InvokeCommand(1, outcome)
    \/ update_steps({1})
    \/ poll_steps
DispatchSpec == DispatchInit /\ [][DispatchNext]_vars

\* --------------------------------------------------------------- claims

\* Positions of update_request past the gate: the backoff sleep and the
\* remote calls.
PastGate == {"sleep", "call_real", "call_giveup"}

\* The steps the program's own threads can take (pool tasks, the poll
\* thread, RequestProcessor.shutdown once called), as opposed to what the
\* plugin and the consumer do to it.
program_step ==
    \/ update_steps(Tasks)
    \/ \E t \in Tasks, outcome \in PoolOutcomes : InvokeCommand(t, outcome)
    \/ poll_steps
    \/ PollExits
    \/ PoolDrained
    \/ ShutdownUpdater

\* C1 (as stated): a call that found brew_view_down set when it took the
\* lock goes past the gate (to the backoff sleep or a remote call) only
\* after it has been woken by the poll thread's successful probe.
C1_GateUntilProbe_Original ==
    \A t \in Tasks :
        (pc[t] \in PastGate /\ gate[t] # "up") => gate[t] = "probe"

\* C1 (amended): a call that found brew_view_down set and the shutdown event
\* not set waits, and is past the gate only once notified (by the poll
\* thread after a successful probe, or by the updater's shutdown()); only
\* such calls wait; and no task is left waiting while the flag is up, so a
\* successful probe releases every waiter.
C1_Gate ==
    \A t \in Tasks :
        /\ pc[t] \in PastGate => gate[t] \in {"up", "down_shutdown", "probe", "shutdown"}
        /\ pc[t] = "waiting" => gate[t] = "down" /\ brew_view_down
        /\ pc[t] = "notified" => gate[t] \in {"probe", "shutdown"}

\* C1 witness: two tasks waited at the gate and the poll thread's successful
\* probe has released both: one is in its remote call, the other is taking
\* the lock again, and the flag is up.
C1_Witness ==
    \E t, u \in Tasks :
        /\ pc[t] \in {"call_real", "call_giveup"} /\ gate[t] = "probe"
        /\ pc[u] = "notified" /\ gate[u] = "probe"
        /\ ~brew_view_down

\* C2: once the shutdown event is set and RequestProcessor.shutdown() has
\* been called and has not finished, some thread of the program can still
\* take a step: shutdown is never stuck behind a down server.
C2_ShutdownNeverStuck ==
    (shutdown_event /\ procPc \in {"draining", "updater"}) => ENABLED program_step

\* The remote call of task t's update_request is over in this step.
call_ends(t) ==
    /\ pc[t] \in {"call_real", "call_giveup"}
    /\ pc'[t] \notin {"call_real", "call_giveup"}

\* The remote call of task t's update_request raised e in this step.
call_fails(t, e) == call_ends(t) /\ exc'[t] = e

\* The retry counter of h has reached or passed a configured limit.
Terminal(h) == max_attempts > 0 /\ Get(h.retry_attempt, 0) >= max_attempts

\* C3: whenever the remote update of an update_request call (real or
\* give-up) fails with a connectivity failure, the call sets brew_view_down
\* and raises RepublishRequestException, whatever the retry counter is.
C3_ConnectivityRedelivers ==
    [][\A t \in Tasks :
         call_fails(t, "conn") => brew_view_down' /\ result'[t] = "republish"]_vars

\* C3 witness: a give-up update, sent with the counter past max_attempts,
\* met a connectivity failure and the call asked for redelivery.
C3_Witness ==
    /\ exc[1] = "conn" /\ result[1] = "republish" /\ brew_view_down
    /\ sent[1] = << GiveUpUpdate >>
    /\ max_attempts > 0 /\ headers[1].retry_attempt > max_attempts

\* C4: with a positive max_attempts and an envelope that started at retry
\* counter 0, as long as every update_request call made with it has failed
\* with a connectivity failure, no give-up update has been sent and every
\* finished call raised RepublishRequestException.
C4_ConnectivityNeverGivesUp ==
    \A t \in Tasks :
        (max_attempts > 0 /\ start0[t] /\ failKinds[t] = "conn") =>
            /\ nGiveUp[t] = 0
            /\ pc[t] = "idle" => result[t] = "republish"

\* C4 witness: max_attempts = 3 and the fifth call with the envelope has
\* just failed like the four before it.
C4_Witness ==
    /\ max_attempts = 3 /\ start0[1] /\ failKinds[1] = "conn"
    /\ nCalls[1] = 5 /\ pc[1] = "idle" /\ result[1] = "republish"

\* An envelope that started at retry counter 0 under a positive
\* max_attempts, every call made with it so far having failed with a
\* failure that is neither a connectivity nor a client failure, the last
\* call being over.
OnlyOtherFailures(t) ==
    max_attempts > 0 /\ start0[t] /\ failKinds[t] = "other" /\ pc[t] = "idle"

\* C5 (as stated): in that scenario call number N = max_attempts is the
\* terminal one: after it exactly one give-up update has been attempted and
\* the call raised DiscardMessageException.
C5_TerminalAtN_Original ==
    \A t \in Tasks :
        (OnlyOtherFailures(t) /\ nCalls[t] = max_attempts) =>
            nGiveUp[t] = 1 /\ result[t] = "discard"

\* C5 (amended): in that scenario the first N = max_attempts calls each
\* send the real update, raise RepublishRequestException and leave the
\* counter at the number of calls made; call N + 1 is the terminal one: it
\* sends the one give-up update and raises DiscardMessageException.
C5_TerminalAfterN ==
    \A t \in Tasks :
        OnlyOtherFailures(t) =>
            /\ nCalls[t] <= max_attempts + 1
            /\ nCalls[t] <= max_attempts =>
                  /\ nGiveUp[t] = 0
                  /\ result[t] = "republish"
                  /\ headers[t].retry_attempt = nCalls[t]
                  /\ sent[t] = << RealUpdate(request[t]) >>
            /\ nCalls[t] = max_attempts + 1 =>
                  /\ nGiveUp[t] = 1
                  /\ result[t] = "discard"
                  /\ sent[t] = << GiveUpUpdate >>

\* C5 witness: max_attempts = 3 and the fourth call has sent the give-up
\* update, which failed, and raised discard.
C5_Witness ==
    /\ OnlyOtherFailures(1) /\ max_attempts = 3 /\ nCalls[1] = 4
    /\ nGiveUp[1] = 1 /\ result[1] = "discard"

\* C6 (as stated): a call that starts with the counter at or past a positive
\* max_attempts and meets no connectivity or client failure sends exactly
\* the give-up update and raises DiscardMessageException, whether the
\* give-up update succeeded or failed.
C6_GiveUpThenDiscard_Original ==
    [][\A t \in Tasks :
         (call_ends(t) /\ Terminal(headers[t]) /\ exc'[t] \notin {"conn", "client"}) =>
             sent[t] = << GiveUpUpdate >> /\ result'[t] = "discard"]_vars

\* C6 (amended): such a call sends exactly the give-up update; it raises
\* DiscardMessageException if the give-up update failed and returns
\* normally, raising nothing, if it succeeded.
C6_GiveUpThenDiscardIfFailed ==
    [][\A t \in Tasks :
         (call_ends(t) /\ Terminal(headers[t]) /\ exc'[t] \notin {"conn", "client"}) =>
             /\ sent[t] = << GiveUpUpdate >>
             /\ result'[t] = IF exc'[t] = "none" THEN "ok" ELSE "discard"]_vars

\* C6 witness: with the counter at the limit, the give-up update was sent,
\* failed, and the call raised discard.
C6_Witness ==
    /\ max_attempts > 0 /\ headers[1].retry_attempt = max_attempts
    /\ sent[1] = << GiveUpUpdate >> /\ exc[1] = "other" /\ result[1] = "discard"

\* C7 (as stated): a call that fails on a non-terminal attempt leaves
\* time_to_wait no smaller than it found it (when it was there) and no
\* larger than max_timeout, whatever the value it found.
C7_WaitBounds_Original ==
    [][\A t \in Tasks :
         (call_ends(t) /\ exc'[t] # "none" /\ ~Terminal(headers[t])) =>
             /\ headers[t].time_to_wait # Absent =>
                   headers'[t].time_to_wait >= headers[t].time_to_wait
             /\ headers'[t].time_to_wait <= max_timeout]_vars

\* C7 (amended): that holds when the value found is absent or at most
\* max_timeout, and the value left is then absent only if the call did not
\* rewrite the envelope; a value found above max_timeout is lowered to
\* max_timeout by a call that rewrites the envelope and is left as it is by
\* the others.
C7_WaitBounds ==
    [][\A t \in Tasks :
         (call_ends(t) /\ exc'[t] # "none" /\ ~Terminal(headers[t])) =>
             IF headers[t].time_to_wait <= max_timeout
             THEN /\ headers[t].time_to_wait # Absent =>
                        headers'[t].time_to_wait >= headers[t].time_to_wait
                  /\ headers'[t].time_to_wait <= max_timeout
                  /\ exc'[t] = "other" => headers'[t].time_to_wait # Absent
             ELSE headers'[t].time_to_wait =
                      IF exc'[t] = "other" THEN max_timeout
                      ELSE headers[t].time_to_wait]_vars

\* C7 witness: an envelope that started at (0, 5) has failed three times
\* and its wait has gone 10, 20, 30 = max_timeout.
C7_Witness ==
    /\ failKinds[1] = "other" /\ nCalls[1] = 3 /\ result[1] = "republish"
    /\ headers[1] = [retry_attempt |-> 3, time_to_wait |-> max_timeout]

\* C8 (as stated): a call that fails on a non-terminal attempt leaves
\* retry_attempt one above the value it found (0 when absent), whatever the
\* failure.
C8_CounterStep_Original ==
    [][\A t \in Tasks :
         (call_ends(t) /\ exc'[t] # "none" /\ ~Terminal(headers[t])) =>
             headers'[t].retry_attempt = Get(headers[t].retry_attempt, 0) + 1]_vars

\* C8 (amended): that holds when the failure is neither a connectivity nor
\* a client failure; after those two the envelope is as the call found it.
C8_CounterStep ==
    [][\A t \in Tasks :
         (call_ends(t) /\ exc'[t] # "none" /\ ~Terminal(headers[t])) =>
             IF exc'[t] = "other"
             THEN headers'[t].retry_attempt = Get(headers[t].retry_attempt, 0) + 1
             ELSE headers'[t] = headers[t]]_vars

\* C8 witness: an envelope without retry_attempt has been through one
\* failed call and carries counter 1.
C8_Witness ==
    /\ exc[1] = "other" /\ result[1] = "republish" /\ nCalls[1] = 1
    /\ headers[1] = [retry_attempt |-> 1, time_to_wait |-> 4]

\* C9: an update_request call whose remote update failed with a
\* RestClientError raised DiscardMessageException, on terminal and
\* non-terminal attempts alike.
C9_ClientErrorDiscards ==
    \A t \in Tasks :
        (pc[t] = "idle" /\ exc[t] = "client") => result[t] = "discard"

\* C9 witness: a real update (a non-terminal attempt, the counter below a
\* positive limit) was rejected by the server and the call raised discard.
C9_Witness ==
    /\ exc[1] = "client" /\ result[1] = "discard"
    /\ sent[1] = << RealUpdate(request[1]) >>
    /\ max_attempts > 0 /\ ~Terminal(headers[1])

\* C10: an update_request call makes at most one remote update call, and
\* one whose remote update failed ended by raising
\* RepublishRequestException or DiscardMessageException.
C10_OneCallOneDisposition ==
    \A t \in Tasks :
        /\ Len(sent[t]) <= 1
        /\ (pc[t] = "idle" /\ exc[t] # "none") =>
               Len(sent[t]) = 1 /\ result[t] \in {"republish", "discard"}

\* C10 witness: the second delivery of an envelope failed again; one remote
\* call was made in it and the call asked for redelivery.
C10_Witness ==
    /\ nCalls[1] = 2 /\ exc[1] = "other" /\ result[1] = "republish"
    /\ Len(sent[1]) = 1

\* The entry a task's log ends with (none: an empty record of the kind).
LastOf(l) == IF l = << >> THEN [ev |-> "none", arg |-> "none"] ELSE l[Len(l)]

\* C11: update_request with an ephemeral request makes no remote call and
\* returns in the step that starts it, whatever the gate is like: the task
\* never waits on the condition, sleeps or calls the server, and the call
\* leaves the envelope, brew_view_down and the lock as they were.
C11_EphemeralSkipsUpdate ==
    /\ [](\A t \in Tasks :
            request[t].is_ephemeral =>
                pc[t] \in {"idle", "update", "invoke"} /\ sent[t] = << >>)
    /\ [][\A t \in Tasks :
            (request[t].is_ephemeral /\ pc[t] = "update" /\ pc'[t] # "update") =>
                /\ LastOf(log'[t]) = Returned("ok")
                /\ headers'[t] = headers[t]
                /\ brew_view_down' = brew_view_down
                /\ lock' = lock
                /\ nGiveUp'[t] = nGiveUp[t]]_vars

\* C11 witness: with brew_view_down set and the shutdown event not set, the
\* update_request of an ephemeral request has returned, no remote call made.
C11_Witness ==
    /\ request[1].is_ephemeral /\ pc[1] = "idle" /\ result[1] = "ok"
    /\ log[1] = << Submitted("SUCCESS"), Report("SUCCESS"), Returned("ok") >>
    /\ sent[1] = << >>
    /\ brew_view_down /\ ~shutdown_event

\* The entries of log l that are of kind e.
Entries(l, e) == { i \in 1..Len(l) : l[i].ev = e }

\* C12: on_message_received submits nothing when _parse failed (it raises
\* DiscardMessageException), when a validation function raised, or when the
\* pool is shut down; what it submits is chosen by the status the request
\* had at submission: update_request alone, the command never invoked, for
\* a status in COMPLETED_STATUSES, and process_message otherwise.
C12_DispatchDecision ==
    \A t \in Tasks :
        /\ result[t] \in {"parse_error", "rejected", "pool_closed"} =>
               pc[t] = "idle" /\ log[t] = << >>
        /\ pc[t] # "idle" => log[t] # << >>
        /\ log[t] # << >> =>
               /\ result[t] \notin {"parse_error", "rejected", "pool_closed"}
               /\ log[t][1].ev = "submitted"
               /\ IF log[t][1].arg \in COMPLETED_STATUSES
                  THEN /\ kind[t] = "report"
                       /\ log[t][2] = Report(log[t][1].arg)
                       /\ Entries(log[t], "handler") = {}
                       /\ Entries(log[t], "report") = {2}
                       /\ pc[t] # "invoke"
                  ELSE /\ kind[t] = "process"
                       /\ log[t][2] = Report("IN_PROGRESS")

\* C12 witness: a request delivered as CANCELED went through the
\* report-only task: one update_request, which returned, and no command.
C12_Witness ==
    /\ pc[1] = "idle" /\ kind[1] = "report" /\ result[1] = "ok"
    /\ log[1] = << Submitted("CANCELED"), Report("CANCELED"), Returned("ok") >>
    /\ ~request[1].is_ephemeral /\ Len(sent[1]) = 1

\* The status and error_class process_message leaves after a command
\* outcome.
StatusAfter(outcome) == IF outcome = "returns" THEN "SUCCESS" ELSE "ERROR"
ErrorClassAfter(outcome) ==
    IF outcome = "returns" THEN "none"
    ELSE IF outcome = "not_found" THEN "RequestProcessingError"
    ELSE "Exception"

\* C13: in process_message, whether the command returned, raised, or the
\* target has no such callable, the request is left SUCCESS or ERROR (ERROR
\* with error_class the name of the exception's type,
\* RequestProcessingError for a missing command), the next thing the task
\* does is call update_request with the request in that state, and the task
\* ends as that update_request ends: nothing the command raised leaves it.
C13_OutcomeReported ==
    \A t \in Tasks :
        /\ \A i \in Entries(log[t], "handler") :
               /\ i < Len(log[t])
               /\ log[t][i + 1] = Report(StatusAfter(log[t][i].arg))
               /\ request[t].status = StatusAfter(log[t][i].arg)
               /\ request[t].error_class = ErrorClassAfter(log[t][i].arg)
               /\ \A j \in 1..Len(sent[t]) :
                      sent[t][j] \in {RealUpdate(request[t]), GiveUpUpdate}
               /\ pc[t] # "invoke"
        /\ (pc[t] = "idle" /\ log[t] # << >>) =>
               /\ LastOf(log[t]).ev = "returned"
               /\ result[t] = LastOf(log[t]).arg

\* C13 witness: the target lacks the command; the request was reported as
\* ERROR with error_class RequestProcessingError and the task ended well.
C13_Witness ==
    /\ pc[1] = "idle" /\ result[1] = "ok"
    /\ log[1] = << Submitted("CREATED"), Report("IN_PROGRESS"), Returned("ok"),
                   Handler("not_found"), Report("ERROR"), Returned("ok") >>
    /\ sent[1] = << [status |-> "ERROR", error_class |-> "RequestProcessingError",
                     give_up |-> FALSE] >>

\* C14: RequestProcessor.shutdown calls the updater's shutdown() only once
\* every submitted task, process_message or report-only, is over, and no
\* task runs after that: from the moment the pool has been waited for, and
\* when and after the updater's shutdown() is called, no slot is inside
\* update_request or the command, and the call at line 144 finds no task
\* at the gate.
C14_UpdaterShutdownLast ==
    /\ [](procPc \in {"updater", "done"} => \A t \in Tasks : pc[t] = "idle")
    /\ [][(procPc = "updater" /\ procPc' = "done") =>
             /\ notifier' = "shutdown"
             /\ \A t \in Tasks : pc[t] = "idle" /\ log'[t] = log[t]]_vars

\* C14 witness: RequestProcessor.shutdown has finished; the process_message
\* task of slot 1 ran to its end before the updater was shut down, and a
\* delivery on slot 2 after shutdown began was refused by the pool.
C14_Witness ==
    /\ procPc = "done"
    /\ kind[1] = "process" /\ Len(log[1]) = 6 /\ result[1] = "ok"
    /\ result[2] = "pool_closed"

\* C15: in a process_message task the first thing done is the
\* update_request call with the request IN_PROGRESS; the command is invoked
\* only after that call returned without raising (when it raised, the task
\* ends there, with what it raised); and every update_request call with the
\* request SUCCESS or ERROR comes right after the command, hence after the
\* IN_PROGRESS call of the same task.
C15_ReportOrder ==
    \A t \in Tasks :
        (kind[t] = "process" /\ log[t] # << >>) =>
            /\ log[t][2] = Report("IN_PROGRESS")
            /\ \A i \in Entries(log[t], "handler") :
                   i = 4 /\ log[t][3] = Returned("ok")
            /\ \A i \in Entries(log[t], "report") :
                   \/ i = 2
                   \/ /\ i = 5
                      /\ log[t][i].arg \in {"SUCCESS", "ERROR"}
                      /\ log[t][4].ev = "handler"
            /\ pc[t] = "invoke" => Len(log[t]) = 3 /\ log[t][3] = Returned("ok")
            /\ (Len(log[t]) >= 3 /\ log[t][3] # Returned("ok")) =>
                   /\ Len(log[t]) = 3 /\ pc[t] = "idle"
                   /\ result[t] = log[t][3].arg
                   /\ result[t] \in {"republish", "discard"}

\* C15 witness: a process_message task ran to its end: IN_PROGRESS was
\* reported and the call returned, the command raised, ERROR was reported.
C15_Witness ==
    /\ kind[1] = "process" /\ pc[1] = "idle"
    /\ log[1] = << Submitted("CREATED"), Report("IN_PROGRESS"), Returned("ok"),
                   Handler("raises"), Report("ERROR"), Returned("republish") >>
    /\ ~request[1].is_ephemeral

\* C16: once process_message has returned (the command returned or raised,
\* or the final update_request raised), request_context.current_request in
\* the thread that ran it no longer refers to the request.
C16_ContextCleared ==
    \A t \in Tasks : pc[t] = "idle" => ~current_request[t]

\* C17: brew_view_down goes from up to down only in the step in which the
\* remote call of an update_request fails with a connectivity failure, and
\* from down to up only in the step in which the poll thread's probe ends,
\* with the waiters notified; client and other failures, a failed probe,
\* the updater's shutdown() and RequestProcessor.shutdown leave it alone.
C17_FlagTransitions ==
    [][/\ (~brew_view_down /\ brew_view_down') =>
              \E t \in Tasks : call_fails(t, "conn") /\ result'[t] = "republish"
       /\ (brew_view_down /\ ~brew_view_down') =>
              pollPc = "probe" /\ pollPc' = "wait" /\ notifier' = "probe"
       /\ (\E t \in Tasks : call_fails(t, "client") \/ call_fails(t, "other")) =>
              brew_view_down' = brew_view_down
       /\ (pollPc = "probe" /\ pollPc' = "wait" /\ notifier' = "none") =>
              brew_view_down' = brew_view_down
       /\ (notifier' = "shutdown" \/ procPc' # procPc \/ shutdown_event' # shutdown_event) =>
              brew_view_down' = brew_view_down]_vars

\* C17 witness: a connectivity failure in slot 1 set the flag and the poll
\* thread's probe has just cleared it again.
C17_Witness ==
    /\ exc[1] = "conn" /\ result[1] = "republish" /\ pc[1] = "idle"
    /\ ~brew_view_down /\ notifier = "probe"

C19_ShutdownStopsProber_Original ==
    [][procPc = "done" => ~(pollPc = "wait" /\ pollPc' = "lock")]_vars

\* C19 (amended): the updater's shutdown() wakes every task that is waiting
\* on the condition when it is called and does nothing else: the flag, the
\* shutdown event and the poll thread are as before. The poll thread ends
\* only when the shutdown event is set, at its next _shutdown_event.wait(5),
\* after which it stays ended; with the event set it starts no new round.
C19_ShutdownWakesWaiters ==
    /\ [](notifier = "shutdown" => \A t \in Tasks : pc[t] # "waiting")
    /\ [][notifier' = "shutdown" =>
             /\ \A t \in Tasks :
                    /\ pc'[t] = IF pc[t] = "waiting" THEN "notified" ELSE pc[t]
                    /\ pc[t] = "waiting" => gate'[t] = "shutdown"
             /\ UNCHANGED << brew_view_down, shutdown_event, pollPc, lock >>]_vars
    /\ [](pollPc = "exit" => shutdown_event)
    /\ [][pollPc = "exit" => pollPc' = "exit"]_vars
    /\ [][(shutdown_event /\ pollPc = "wait") => pollPc' \in {"wait", "exit"}]_vars

\* C19 witness: the updater's shutdown() has just woken both slots, which
\* were waiting on the condition; the flag is still down, the shutdown
\* event is not set and the poll thread is in a round, about to probe.
C19_Witness ==
    /\ notifier = "shutdown" /\ brew_view_down /\ ~shutdown_event
    /\ \A t \in Tasks : pc[t] = "notified" /\ gate[t] = "shutdown"
    /\ pollPc = "lock"

\* C20: at most one thread (pool tasks and the poll thread) holds the
\* condition's lock; a task holds it exactly while it is in its backoff
\* sleep or its remote call, the poll thread while it probes, so none of
\* these overlap; the gate is read (by a task entering update_request, by
\* the poll thread starting a round) only when nobody else holds the lock;
\* and brew_view_down changes only in a step of the thread that holds it.
C20_MutualExclusion ==
    /\ [](/\ Cardinality(lock) + (IF pollPc = "probe" THEN 1 ELSE 0) <= 1
          /\ \A t \in Tasks : t \in lock <=> pc[t] \in PastGate)
    /\ [][/\ \A t \in Tasks :
                 (pc[t] = "update" /\ pc'[t] \in PastGate \cup {"waiting"}) =>
                     lock = {} /\ pollPc # "probe"
          /\ \A t \in Tasks :
                 (pc[t] = "notified" /\ pc'[t] # "notified") =>
                     lock = {} /\ pollPc # "probe"
          /\ (pollPc = "lock" /\ pollPc' # "lock") => lock = {}
          /\ brew_view_down' # brew_view_down =>
                 \/ pollPc = "probe"
                 \/ \E t \in lock : call_ends(t)]_vars

\* C20 witness: slot 1 sleeps in backoff holding the lock with the flag
\* down, while slot 2 is entering update_request and the poll thread has
\* started a round: both have to wait for the lock.
C20_Witness ==
    /\ pc[1] = "sleep" /\ lock = {1} /\ brew_view_down
    /\ pc[2] = "update" /\ pollPc = "lock"

====
